---- MODULE Spec2Model ----
(***************************************************************************)
(* Model of pkg/cmd/template/regular_input.go (ytt): the file-mark         *)
(* applier (applyFileMarks), its path pattern matcher (fileMarkMatches),   *)
(* the compaction (clearNils) and the output selection (Output).           *)
(*                                                                         *)
(* A Go string is modelled as a sequence of one-character strings, so      *)
(* that strings.SplitN, regexp.QuoteMeta, strings.Replace and the match of *)
(* the compiled regular expression are computed character by character.    *)
(***************************************************************************)
EXTENDS Integers, Sequences, FiniteSets, TLC

(***************************************************************************)
(* Bounds of the model.                                                    *)
(***************************************************************************)
\* number of pieces a generated pattern is assembled from
MaxPatPieces == 3
\* number of characters of a generated original relative path
MaxPathLen == 3
\* number of marks in s.opts.fileMarks
MaxMarks == 2
\* number of marks in s.opts.fileMarks in the runs over the shorter mark
\* alphabet
MaxDeepMarks == 3

(***************************************************************************)
(* Characters and strings.                                                 *)
(***************************************************************************)
BSL == "\\"
NL == "\n"

\* the characters regexp.QuoteMeta escapes: \.+*?()|[]{}^$
QuoteMetaSpecial ==
  {BSL, ".", "+", "*", "?", "(", ")", "|", "[", "]", "{", "}", "^", "$"}

RECURSIVE Concat(_)
\* concatenation of a sequence of strings
Concat(ss) == IF ss = <<>> THEN <<>> ELSE Head(ss) \o Concat(Tail(ss))

\* s has t as a prefix starting at index i
HasAt(s, t, i) ==
  /\ i + Len(t) - 1 <= Len(s)
  /\ \A j \in 1..Len(t) : s[i + j - 1] = t[j]

\* strings.Index: first index at which t occurs in s, 0 when it does not
\* (t is never empty here)
Index(s, t) ==
  IF \E i \in 1..Len(s) : HasAt(s, t, i)
  THEN CHOOSE i \in 1..Len(s) :
         /\ HasAt(s, t, i)
         /\ \A j \in 1..(i - 1) : ~HasAt(s, t, j)
  ELSE 0

RECURSIVE SplitAll(_, _)
\* strings.Split(s, sep) for a one-character sep: a piece per occurrence
SplitAll(s, sep) ==
  LET i == Index(s, <<sep>>)
  IN IF i = 0 THEN <<s>>
     ELSE <<SubSeq(s, 1, i - 1)>> \o SplitAll(SubSeq(s, i + 1, Len(s)), sep)

\* strings.SplitN(s, sep, 2) for a one-character sep: one piece when sep
\* does not occur, else the text before and the text after the first sep
SplitN2(s, sep) ==
  LET i == Index(s, <<sep>>)
  IN IF i = 0 THEN <<s>>
     ELSE <<SubSeq(s, 1, i - 1), SubSeq(s, i + 1, Len(s))>>

\* strings.Replace(s, old, new, 1): the first occurrence only
ReplaceFirst(s, old, new) ==
  LET i == Index(s, old)
  IN IF i = 0 THEN s
     ELSE SubSeq(s, 1, i - 1) \o new \o SubSeq(s, i + Len(old), Len(s))

RECURSIVE QuoteMetaNoDot(_)
\* a QuoteMeta that leaves "." unescaped
QuoteMetaNoDot(s) ==
  IF s = <<>> THEN <<>>
  ELSE (IF Head(s) \in QuoteMetaSpecial \ {"."} THEN <<BSL, Head(s)>>
        ELSE <<Head(s)>>)
       \o QuoteMetaNoDot(Tail(s))

RECURSIVE QuoteMeta(_)
\* regexp.QuoteMeta: a backslash before every special character
QuoteMeta(s) ==
  IF s = <<>> THEN <<>>
  ELSE (IF Head(s) \in QuoteMetaSpecial THEN <<BSL, Head(s)>> ELSE <<Head(s)>>)
       \o QuoteMeta(Tail(s))

(***************************************************************************)
(* The regular expressions fileMarkMatches compiles.  After QuoteMeta the  *)
(* only unescaped operators are the ones the two replacements insert:      *)
(* ".+" and "[^/]+".                                                       *)
(***************************************************************************)
DotPlus == <<".", "+">>
NotSlashPlus == <<"[", "^", "/", "]", "+">>

quotedMultiLevel == QuoteMeta(<<"*", "*", "/", "*">>)
quotedSingleLevel == QuoteMeta(<<"*">>)

RECURSIVE Compile(_)
\* regexp.MustCompile restricted to that syntax: the sequence of atoms of
\* the expression ("lit" a literal character, "one" a class once, "plus" a
\* class one or more times); "bad" marks an operator outside that syntax,
\* which no quoted pattern produces
Compile(re) ==
  IF re = <<>> THEN <<>>
  ELSE IF Head(re) = BSL
    THEN IF Len(re) >= 2
         THEN <<[op |-> "lit", c |-> re[2]]>> \o Compile(SubSeq(re, 3, Len(re)))
         ELSE <<[op |-> "bad", c |-> BSL]>>
  ELSE IF HasAt(re, DotPlus, 1)
    THEN <<[op |-> "plus", c |-> "dot"]>> \o Compile(SubSeq(re, 3, Len(re)))
  ELSE IF HasAt(re, NotSlashPlus, 1)
    THEN <<[op |-> "plus", c |-> "notslash"]>> \o Compile(SubSeq(re, 6, Len(re)))
  ELSE IF Head(re) = "."
    THEN <<[op |-> "one", c |-> "dot"]>> \o Compile(Tail(re))
  ELSE IF Head(re) \in QuoteMetaSpecial
    THEN <<[op |-> "bad", c |-> Head(re)]>>
  ELSE <<[op |-> "lit", c |-> Head(re)]>> \o Compile(Tail(re))

\* membership in a character class: "." is any character but a line feed
\* (the expression is compiled without the s flag), "[^/]" is any character
\* but "/" (a negated class does match a line feed)
InClass(cls, ch) ==
  IF cls = "dot" THEN ch # NL ELSE ch # "/"

RECURSIVE Accepts(_, _)
\* the atoms match the whole of s (the expression is anchored by ^ and $)
Accepts(atoms, s) ==
  IF atoms = <<>> THEN s = <<>>
  ELSE LET a == Head(atoms)
       IN IF a.op = "lit"
          THEN /\ s # <<>>
               /\ Head(s) = a.c
               /\ Accepts(Tail(atoms), Tail(s))
          ELSE IF a.op = "one"
          THEN /\ s # <<>>
               /\ InClass(a.c, Head(s))
               /\ Accepts(Tail(atoms), Tail(s))
          ELSE IF a.op = "plus"
          THEN \E n \in 1..Len(s) :
                 /\ \A i \in 1..n : InClass(a.c, s[i])
                 /\ Accepts(Tail(atoms), SubSeq(s, n + 1, Len(s)))
          ELSE FALSE

\* the expression fileMarkMatches builds from a pattern
MarkRegexp(path) ==
  ReplaceFirst(ReplaceFirst(QuoteMeta(path), quotedMultiLevel, DotPlus),
               quotedSingleLevel, NotSlashPlus)

\* fileMarkMatches on a file whose original relative path is orig
PathMatches(path, orig) == Accepts(Compile(MarkRegexp(path)), orig)

(***************************************************************************)
(* Files (pkg/files.File; this file only calls its methods).               *)
(***************************************************************************)
\* a cleared slot of filesToProcess (a nil *files.File)
Nil == 0

TypeYAML == "YAML"
TypeText == "Text"
TypeStarlark == "Starlark"
TypeUnknown == "Unknown"

\* file.OriginalRelativePath()
OriginalRelativePath(f) == f.orig
\* file.MarkRelativePath(v)
MarkRelativePath(f, v) == [f EXCEPT !.marked = v]
\* file.MarkType(t)
MarkType(f, t) == [f EXCEPT !.type = t]
\* file.MarkTemplate(b)
MarkTemplate(f, b) == [f EXCEPT !.template = b]
\* file.MarkForOutput(b)
MarkForOutput(f, b) == [f EXCEPT !.forOutput = b]

\* a File as the ingestion leaves it: the marked path is the original one
NewFile(orig, type, template, forOutput) ==
  [orig |-> orig, marked |-> orig, type |-> type, template |-> template,
   forOutput |-> forOutput]

(***************************************************************************)
(* The strings of the mark grammar.                                        *)
(***************************************************************************)
K_path == <<"p", "a", "t", "h">>
K_exclude == <<"e", "x", "c", "l", "u", "d", "e">>
K_type == <<"t", "y", "p", "e">>
K_forOutput == <<"f", "o", "r", "-", "o", "u", "t", "p", "u", "t">>
K_exclusiveForOutput ==
  <<"e", "x", "c", "l", "u", "s", "i", "v", "e", "-">> \o K_forOutput

V_true == <<"t", "r", "u", "e">>
V_yaml == <<"y", "a", "m", "l">>
V_text == <<"t", "e", "x", "t">>
V_template == <<"-", "t", "e", "m", "p", "l", "a", "t", "e">>
V_plain == <<"-", "p", "l", "a", "i", "n">>
V_yamlTemplate == V_yaml \o V_template
V_yamlPlain == V_yaml \o V_plain
V_textTemplate == V_text \o V_template
V_textPlain == V_text \o V_plain
V_starlark == <<"s", "t", "a", "r", "l", "a", "r", "k">>
V_data == <<"d", "a", "t", "a">>
\* an unrecognized key
K_data == V_data

(***************************************************************************)
(* applyFileMarks: the effect of a mark on one matching file.              *)
(* st is the state of the call: the File objects (files, by identity),     *)
(* the slice filesToProcess (slots), the accumulator                       *)
(* exclusiveForOutputFiles (excl) and the local matched.                   *)
(***************************************************************************)
Errored(st, err) == [outcome |-> err, st |-> st]
Went(st) == [outcome |-> "ok", st |-> st]

\* the pair a type mark sets with starlark marked as a template
TypePairStarlarkTemplate(value) ==
  IF value = V_yamlTemplate THEN <<TypeYAML, TRUE>>
  ELSE IF value = V_yamlPlain THEN <<TypeYAML, FALSE>>
  ELSE IF value = V_textTemplate THEN <<TypeText, TRUE>>
  ELSE IF value = V_textPlain THEN <<TypeText, FALSE>>
  ELSE IF value = V_starlark THEN <<TypeStarlark, TRUE>>
  ELSE IF value = V_data THEN <<TypeUnknown, FALSE>>
  ELSE <<>>

\* case "type": the arguments of MarkType and MarkTemplate for a value,
\* <<>> for the default case
TypePair(value) ==
  IF value = V_yamlTemplate THEN <<TypeYAML, TRUE>>
  ELSE IF value = V_yamlPlain THEN <<TypeYAML, FALSE>>
  ELSE IF value = V_textTemplate THEN <<TypeText, TRUE>>
  ELSE IF value = V_textPlain THEN <<TypeText, FALSE>>
  ELSE IF value = V_starlark THEN <<TypeStarlark, FALSE>>
  ELSE IF value = V_data THEN <<TypeUnknown, FALSE>>
  ELSE <<>>

\* a switch on the key without its default case
UnknownKeyIgnored(st) == Went(st)

\* the default case of the switch on the key
UnknownKey(st) == Errored(st, "UnknownMarkKey")

\* a loop body whose exclusive-for-output case also marks the file for
\* output at once
MarkFileExclusiveMarksOutput(st, i, key, value) ==
  LET id == st.slots[i]
      file == st.files[id]
  IN IF key = K_path
     THEN Went([st EXCEPT !.files[id] = MarkRelativePath(file, value)])
     ELSE IF key = K_exclude
     THEN IF value = V_true
          THEN Went([st EXCEPT !.slots[i] = Nil])
          ELSE Errored(st, "InvalidMarkValue")
     ELSE IF key = K_type
     THEN IF TypePair(value) # <<>>
          THEN Went([st EXCEPT !.files[id] =
                 MarkTemplate(MarkType(file, TypePair(value)[1]),
                              TypePair(value)[2])])
          ELSE Errored(st, "InvalidMarkValue")
     ELSE IF key = K_forOutput
     THEN IF value = V_true
          THEN Went([st EXCEPT !.files[id] = MarkForOutput(file, TRUE)])
          ELSE Errored(st, "InvalidMarkValue")
     ELSE IF key = K_exclusiveForOutput
     THEN IF value = V_true
          THEN Went([st EXCEPT !.excl = Append(st.excl, id),
                             !.files[id] = MarkForOutput(file, TRUE)])
          ELSE Errored(st, "InvalidMarkValue")
     ELSE UnknownKey(st)

\* a loop body whose path case keeps a marked path that an earlier mark
\* has set
MarkFileKeepsFirstPath(st, i, key, value) ==
  LET id == st.slots[i]
      file == st.files[id]
  IN IF key = K_path
     THEN IF file.marked = file.orig
          THEN Went([st EXCEPT !.files[id] = MarkRelativePath(file, value)])
          ELSE Went(st)
     ELSE IF key = K_exclude
     THEN IF value = V_true
          THEN Went([st EXCEPT !.slots[i] = Nil])
          ELSE Errored(st, "InvalidMarkValue")
     ELSE IF key = K_type
     THEN IF TypePair(value) # <<>>
          THEN Went([st EXCEPT !.files[id] =
                 MarkTemplate(MarkType(file, TypePair(value)[1]),
                              TypePair(value)[2])])
          ELSE Errored(st, "InvalidMarkValue")
     ELSE IF key = K_forOutput
     THEN IF value = V_true
          THEN Went([st EXCEPT !.files[id] = MarkForOutput(file, TRUE)])
          ELSE Errored(st, "InvalidMarkValue")
     ELSE IF key = K_exclusiveForOutput
     THEN IF value = V_true
          THEN Went([st EXCEPT !.excl = Append(st.excl, id)])
          ELSE Errored(st, "InvalidMarkValue")
     ELSE UnknownKey(st)

\* the body of "if s.fileMarkMatches(file, path)" for slot i, after
\* matched = true
MarkFile(st, i, key, value) ==
  LET id == st.slots[i]
      file == st.files[id]
  IN IF key = K_path
     THEN Went([st EXCEPT !.files[id] = MarkRelativePath(file, value)])
     ELSE IF key = K_exclude
     THEN IF value = V_true
          THEN Went([st EXCEPT !.slots[i] = Nil])
          ELSE Errored(st, "InvalidMarkValue")
     ELSE IF key = K_type
     THEN IF TypePair(value) # <<>>
          THEN Went([st EXCEPT !.files[id] =
                 MarkTemplate(MarkType(file, TypePair(value)[1]),
                              TypePair(value)[2])])
          ELSE Errored(st, "InvalidMarkValue")
     ELSE IF key = K_forOutput
     THEN IF value = V_true
          THEN Went([st EXCEPT !.files[id] = MarkForOutput(file, TRUE)])
          ELSE Errored(st, "InvalidMarkValue")
     ELSE IF key = K_exclusiveForOutput
     THEN IF value = V_true
          THEN Went([st EXCEPT !.excl = Append(st.excl, id)])
          ELSE Errored(st, "InvalidMarkValue")
     ELSE UnknownKey(st)

\* a match test that reads the marked path of the file
fileMarkMatchesMarked(st, i, path) ==
  IF st.slots[i] = Nil THEN "panic"
  ELSE IF PathMatches(path, st.files[st.slots[i]].marked)
  THEN "match"
  ELSE "nomatch"

\* fileMarkMatches(file, path): the expression is compiled, then
\* file.OriginalRelativePath() reads through the pointer, which panics on
\* a nil file
fileMarkMatches(st, i, path) ==
  IF st.slots[i] = Nil THEN "panic"
  ELSE IF PathMatches(path, OriginalRelativePath(st.files[st.slots[i]]))
  THEN "match"
  ELSE "nomatch"

\* the end of a scan that does not check matched
ScanEndUnchecked(st) == Went(st)

\* after the range loop: "if !matched { return nil, error }"
ScanEnd(st) ==
  IF st.matched THEN Went(st) ELSE Errored(st, "UnmatchedMarkPattern")

RECURSIVE ScanFromFirstOnly(_, _, _, _, _)
\* a scan that stops at the first file the pattern matches
ScanFromFirstOnly(i, st, path, key, value) ==
  IF i > Len(st.slots) THEN ScanEnd(st)
  ELSE LET m == fileMarkMatches(st, i, path)
       IN IF m = "panic" THEN Errored(st, "panic")
          ELSE IF m = "nomatch"
          THEN ScanFromFirstOnly(i + 1, st, path, key, value)
          ELSE MarkFile([st EXCEPT !.matched = TRUE], i, key, value)

RECURSIVE ScanFrom(_, _, _, _, _)
\* "for i, file := range filesToProcess" from slot i on
ScanFrom(i, st, path, key, value) ==
  IF i > Len(st.slots) THEN ScanEnd(st)
  ELSE LET m == fileMarkMatches(st, i, path)
       IN IF m = "panic" THEN Errored(st, "panic")
          ELSE IF m = "nomatch" THEN ScanFrom(i + 1, st, path, key, value)
          ELSE LET r == MarkFile([st EXCEPT !.matched = TRUE], i, key, value)
               IN IF r.outcome # "ok" THEN r
                  ELSE ScanFrom(i + 1, r.st, path, key, value)

\* one iteration of "for _, mark := range s.opts.fileMarks"
ApplyMark(st, mark) ==
  LET pieces == SplitN2(mark, ":")
  IN IF Len(pieces) # 2 THEN Errored(st, "MalformedMarkSyntax")
     ELSE LET kv == SplitN2(pieces[2], "=")
          IN IF Len(kv) # 2 THEN Errored(st, "MalformedMarkSyntax")
             ELSE ScanFrom(1, [st EXCEPT !.matched = FALSE],
                           pieces[1], kv[1], kv[2])

\* a compaction that returns the slots as they are
clearNilsKeepsSlots(input) == input

\* clearNils
clearNils(input) == SelectSeq(input, LAMBDA id : id # Nil)

\* the elements of a sequence
Range(seq) == {seq[i] : i \in 1..Len(seq)}

\* an override that marks the accumulated files and resets no other file
ExclusiveOverrideNoReset(fs, slots, excl) ==
  [id \in DOMAIN fs |->
     IF id \in Range(excl) THEN MarkForOutput(fs[id], TRUE) ELSE fs[id]]

\* an override that does not look at the length of the accumulator
ExclusiveOverrideAlways(fs, slots, excl) ==
  [id \in DOMAIN fs |->
     IF id \in Range(excl) THEN MarkForOutput(fs[id], TRUE)
     ELSE IF id \in Range(slots) THEN MarkForOutput(fs[id], FALSE)
     ELSE fs[id]]

\* lines 188-195: the exclusive-for-output override on the File objects
ExclusiveOverride(fs, slots, excl) ==
  IF Len(excl) > 0
  THEN [id \in DOMAIN fs |->
          IF id \in Range(excl) THEN MarkForOutput(fs[id], TRUE)
          ELSE IF id \in Range(slots) THEN MarkForOutput(fs[id], FALSE)
          ELSE fs[id]]
  ELSE fs

RECURSIVE RunMarks(_, _)
\* lines 102-182: the loop over the marks ms, from the loop state st
RunMarks(st, ms) ==
  IF ms = <<>> THEN Went(st)
  ELSE LET r == ApplyMark(st, Head(ms))
       IN IF r.outcome # "ok" THEN r ELSE RunMarks(r.st, Tail(ms))

\* applyFileMarks(fs) with s.opts.fileMarks = ms, as a function: the
\* outcome, the File objects, the returned collection and the accumulator
applyFileMarks(fs, ms) ==
  LET r == RunMarks([files |-> fs, slots |-> [i \in 1..Len(fs) |-> i],
                     excl |-> <<>>, matched |-> FALSE], ms)
      slots == clearNils(r.st.slots)
  IN IF r.outcome # "ok"
     THEN [outcome |-> r.outcome, files |-> r.st.files, result |-> <<>>,
           excl |-> r.st.excl]
     ELSE [outcome |-> "ok",
           files |-> ExclusiveOverride(r.st.files, slots, r.st.excl),
           result |-> slots, excl |-> r.st.excl]

(***************************************************************************)
(* Inputs of the applier.                                                  *)
(***************************************************************************)
P_a == <<"a">>
P_b == <<"b">>
P_c == <<"c">>
P_star == <<"*">>

\* the original relative paths of the collections NewSortedFilesFromPaths
\* hands over (sorted)
FileLists == {<<>>, <<P_a>>, <<P_a, P_b>>}

\* (contentType, templateEnabled, forOutput) of a file at ingestion
IngestedAttrs ==
  {<<TypeYAML, TRUE, TRUE>>, <<TypeUnknown, FALSE, FALSE>>}

\* the collections of File objects for a list of paths
InitialFiles(paths) ==
  {[id \in 1..Len(paths) |->
      NewFile(paths[id], at[id][1], at[id][2], at[id][3])] :
     at \in [1..Len(paths) -> IngestedAttrs]}

MarkPatterns == {P_a, P_b, P_c, P_star}

\* key=value portions: every key with its legal values and an illegal one,
\* an unknown key and an empty key
KeyValues ==
  {<<K_path, P_c>>, <<K_path, <<>>>>,
   <<K_exclude, V_true>>, <<K_exclude, V_data>>,
   <<K_type, V_yamlTemplate>>, <<K_type, V_yamlPlain>>,
   <<K_type, V_textTemplate>>, <<K_type, V_textPlain>>,
   <<K_type, V_starlark>>, <<K_type, V_data>>, <<K_type, V_true>>,
   <<K_forOutput, V_true>>, <<K_forOutput, <<"a", "=", ":">>>>,
   <<K_exclusiveForOutput, V_true>>, <<K_exclusiveForOutput, V_yaml>>,
   <<K_data, V_true>>, <<<<>>, V_true>>}

MarkOf(pat, key, value) == pat \o <<":">> \o key \o <<"=">> \o value

\* the raw marks of the model: well-formed ones, ones with an empty
\* pattern, and ones without ":" or without "="
RawMarks ==
  {MarkOf(pat, kv[1], kv[2]) : pat \in MarkPatterns, kv \in KeyValues}
  \cup {MarkOf(<<>>, K_path, P_c), MarkOf(<<>>, K_exclude, V_true)}
  \cup {<<>>, P_a, K_path \o <<"=">> \o P_c, P_a \o <<":">> \o K_path,
        P_star \o <<":">>}

\* a shorter alphabet of well-formed marks with legal values, for the runs
\* of three marks
DeepKeyValues ==
  {<<K_path, P_c>>, <<K_exclude, V_true>>, <<K_type, V_data>>,
   <<K_forOutput, V_true>>, <<K_exclusiveForOutput, V_true>>}
DeepMarks ==
  {MarkOf(pat, kv[1], kv[2]) : pat \in MarkPatterns, kv \in DeepKeyValues}

(***************************************************************************)
(* Inputs of the matcher.                                                  *)
(***************************************************************************)
PatternPieces == {<<"a">>, <<"/">>, <<".">>, <<"*">>, <<"*", "*", "/", "*">>}
PathChars == {"a", "/", ".", "*", NL}

RECURSIVE SeqsUpTo(_, _)
\* the sequences over S of length at most n
SeqsUpTo(S, n) ==
  IF n = 0 THEN {<<>>}
  ELSE LET shorter == SeqsUpTo(S, n - 1)
       IN shorter \cup {Append(q, x) : q \in shorter, x \in S}

GenPatterns == {Concat(ps) : ps \in SeqsUpTo(PatternPieces, MaxPatPieces)}
GenPaths == SeqsUpTo(PathChars, MaxPathLen)

(***************************************************************************)
(* Inputs of Output.                                                       *)
(***************************************************************************)
OutputTypes == {"yaml", "json", "pos", "xml", ""}
OutputDirs == {<<>>, <<"o", "u", "t">>}

(***************************************************************************)
(* State.                                                                  *)
(***************************************************************************)
VARIABLES
  \* applyFileMarks
  files0,                   \* the File objects as ingested (never changed)
  files,                    \* the File objects, by identity 1..n
  filesToProcess,           \* the slice: a file identity or Nil per slot
  exclusiveForOutputFiles,  \* the accumulator, a sequence of identities
  nMarks,                   \* len(s.opts.fileMarks)
  k,                        \* number of marks the loop has taken
  mark,                     \* the mark of the last iteration
  marks,                    \* the marks taken so far, in order
  slotsAtEval,              \* filesToProcess when that iteration started
  status,                   \* "running", "ok", an error kind or "panic"
  result,                   \* the returned collection
  \* fileMarkMatches
  pattern, origPath, matches,
  \* Output
  outErr, outputDir, outputType, outFiles, docSetFails, dirWriteFails,
  effects, outputResult

applierVars ==
  <<files0, files, filesToProcess, exclusiveForOutputFiles, nMarks, k, mark,
    marks, slotsAtEval, status, result>>
matcherVars == <<pattern, origPath, matches>>
outputVars ==
  <<outErr, outputDir, outputType, outFiles, docSetFails, dirWriteFails,
    effects, outputResult>>
vars == <<applierVars, matcherVars, outputVars>>

\* the part of the state a specification does not use
ApplierIdle ==
  /\ files0 = <<>> /\ files = <<>> /\ filesToProcess = <<>>
  /\ exclusiveForOutputFiles = <<>> /\ nMarks = 0 /\ k = 0 /\ mark = <<>>
  /\ marks = <<>> /\ slotsAtEval = <<>> /\ status = "idle" /\ result = <<>>
MatcherIdle ==
  /\ pattern = <<>> /\ origPath = <<>> /\ matches = "idle"
OutputIdle ==
  /\ outErr = FALSE /\ outputDir = <<>> /\ outputType = "" /\ outFiles = <<>>
  /\ docSetFails = FALSE /\ dirWriteFails = FALSE
  /\ effects = <<>> /\ outputResult = "idle"

(***************************************************************************)
(* applyFileMarks as a state machine: one step per mark, one final step.   *)
(***************************************************************************)
\* the state at the entry of applyFileMarks, for at most n marks
EntryState(n) ==
  /\ \E paths \in FileLists : files0 \in InitialFiles(paths)
  /\ files = files0
  /\ filesToProcess = [i \in 1..Len(files0) |-> i]
  /\ exclusiveForOutputFiles = <<>>
  /\ nMarks \in 0..n
  /\ k = 0
  /\ mark = <<>>
  /\ marks = <<>>
  /\ slotsAtEval = <<>>
  /\ status = "running"
  /\ result = <<>>

InitApplier == EntryState(MaxMarks)

Init == InitApplier /\ MatcherIdle /\ OutputIdle

\* a loop body that works on a copy and gives the File objects back as
\* ingested when the mark fails
TakeMarkTransactional(M) ==
  /\ status = "running"
  /\ k < nMarks
  /\ \E m \in M :
       LET r == ApplyMark([files |-> files, slots |-> filesToProcess,
                           excl |-> exclusiveForOutputFiles,
                           matched |-> FALSE], m)
       IN /\ mark' = m
          /\ marks' = Append(marks, m)
          /\ files' = IF r.outcome = "ok" THEN r.st.files ELSE files0
          /\ filesToProcess' = r.st.slots
          /\ exclusiveForOutputFiles' = r.st.excl
          /\ status' = IF r.outcome = "ok" THEN "running" ELSE r.outcome
  /\ slotsAtEval' = filesToProcess
  /\ k' = k + 1
  /\ UNCHANGED <<files0, nMarks, result>>

\* lines 102-182: the loop body for the next mark of s.opts.fileMarks,
\* the mark being one of M
TakeMark(M) ==
  /\ status = "running"
  /\ k < nMarks
  /\ \E m \in M :
       LET r == ApplyMark([files |-> files, slots |-> filesToProcess,
                           excl |-> exclusiveForOutputFiles,
                           matched |-> FALSE], m)
       IN /\ mark' = m
          /\ marks' = Append(marks, m)
          /\ files' = r.st.files
          /\ filesToProcess' = r.st.slots
          /\ exclusiveForOutputFiles' = r.st.excl
          /\ status' = IF r.outcome = "ok" THEN "running" ELSE r.outcome
  /\ slotsAtEval' = filesToProcess
  /\ k' = k + 1
  /\ UNCHANGED <<files0, nMarks, result>>

NextMark == TakeMark(RawMarks)

\* lines 184-197: compaction, exclusive-for-output override, return
Finish ==
  /\ status = "running"
  /\ k = nMarks
  /\ filesToProcess' = clearNils(filesToProcess)
  /\ files' = ExclusiveOverride(files, filesToProcess',
                                exclusiveForOutputFiles)
  /\ result' = filesToProcess'
  /\ status' = "ok"
  /\ UNCHANGED <<files0, exclusiveForOutputFiles, nMarks, k, mark, marks,
                 slotsAtEval>>

Next ==
  \/ NextMark /\ UNCHANGED <<matcherVars, outputVars>>
  \/ Finish /\ UNCHANGED <<matcherVars, outputVars>>

Spec == Init /\ [][Next]_vars

\* applyFileMarks on lists of up to MaxDeepMarks marks of the shorter
\* alphabet
InitDeep == EntryState(MaxDeepMarks) /\ MatcherIdle /\ OutputIdle

DeepMark == TakeMark(DeepMarks)

NextDeep ==
  \/ DeepMark /\ UNCHANGED <<matcherVars, outputVars>>
  \/ Finish /\ UNCHANGED <<matcherVars, outputVars>>

SpecDeep == InitDeep /\ [][NextDeep]_vars

(***************************************************************************)
(* fileMarkMatches as a function of a pattern and an original path.        *)
(***************************************************************************)
InitMatch ==
  /\ pattern \in GenPatterns
  /\ origPath \in GenPaths
  /\ matches = "unknown"
  /\ ApplierIdle /\ OutputIdle

\* a call of fileMarkMatches on a file whose original path is origPath
Match ==
  /\ matches = "unknown"
  /\ matches' = IF PathMatches(pattern, origPath) THEN "match" ELSE "nomatch"
  /\ UNCHANGED <<pattern, origPath, applierVars, outputVars>>

NextMatch == Match

SpecMatch == InitMatch /\ [][NextMatch]_vars

(***************************************************************************)
(* Output.                                                                 *)
(***************************************************************************)
\* a switch on the output type whose default is the yaml printer
PrinterForDefaultYaml(type) ==
  IF type = "json" THEN "JSONPrinter"
  ELSE IF type = "pos" THEN "WrappedFilePositionPrinter"
  ELSE "nil"

\* the switch on s.opts.outputType: the printer, "unknown" for the default
PrinterFor(type) ==
  IF type = "yaml" THEN "nil"
  ELSE IF type = "json" THEN "JSONPrinter"
  ELSE IF type = "pos" THEN "WrappedFilePositionPrinter"
  ELSE "unknown"

InitOutput ==
  /\ outErr \in BOOLEAN
  /\ outputDir \in OutputDirs
  /\ outputType \in OutputTypes
  /\ outFiles \in {<<>>, <<P_a>>, <<P_a, P_b>>}
  /\ docSetFails \in BOOLEAN
  /\ dirWriteFails \in BOOLEAN
  /\ effects = <<>>
  /\ outputResult = "pending"
  /\ ApplierIdle /\ MatcherIdle

Returned(res, eff) == [result |-> res, effects |-> eff]

\* files.NewOutputDirectory(dir, out.Files, ui).Write()
E_writeDirectory(dir, fs) == [op |-> "writeDirectory", dir |-> dir, arg |-> fs]
\* out.DocSet.AsBytesWithPrinter(printerFunc)
E_asBytes(printer) == [op |-> "AsBytesWithPrinter", dir |-> "", arg |-> printer]
\* s.ui.Debugf("### result\n")
E_debugf == [op |-> "Debugf", dir |-> "", arg |-> "### result"]
\* s.ui.Printf("%s", combinedDocBytes)
E_printf == [op |-> "Printf", dir |-> "", arg |-> "combinedDocBytes"]

\* lines 73-96: the switch on the output type, serialization and print
OutputCombined(type, marshalFails) ==
  IF PrinterFor(type) = "unknown" THEN Returned("UnknownOutputType", <<>>)
  ELSE IF marshalFails
  THEN Returned("MarshalError", <<E_asBytes(PrinterFor(type))>>)
  ELSE Returned("nil", <<E_asBytes(PrinterFor(type)), E_debugf, E_printf>>)

\* an Output that validates the output type before it looks at the
\* output directory
OutputCallTypeFirst(err, dir, type, fs, marshalFails, writeFails) ==
  IF err THEN Returned("RenderError", <<>>)
  ELSE IF PrinterFor(type) = "unknown"
  THEN Returned("UnknownOutputType", <<>>)
  ELSE IF Len(dir) > 0
  THEN Returned(IF writeFails THEN "OutputWriteError" ELSE "nil",
                <<E_writeDirectory(dir, fs)>>)
  ELSE OutputCombined(type, marshalFails)

\* Output(out): the returned error ("nil" for none) and, in order, what
\* the call does outside itself; marshalFails and writeFails are the
\* outcomes of the two collaborators
OutputCall(err, dir, type, fs, marshalFails, writeFails) ==
  IF err THEN Returned("RenderError", <<>>)
  ELSE IF Len(dir) > 0
  THEN Returned(IF writeFails THEN "OutputWriteError" ELSE "nil",
                <<E_writeDirectory(dir, fs)>>)
  ELSE OutputCombined(type, marshalFails)

Output ==
  /\ outputResult = "pending"
  /\ LET r == OutputCall(outErr, outputDir, outputType, outFiles,
                         docSetFails, dirWriteFails)
     IN /\ outputResult' = r.result
        /\ effects' = effects \o r.effects
  /\ UNCHANGED <<outErr, outputDir, outputType, outFiles, docSetFails,
                 dirWriteFails, applierVars, matcherVars>>

NextOutput == Output

SpecOutput == InitOutput /\ [][NextOutput]_vars

(***************************************************************************)
(* Vocabulary of the properties.  The last mark is read back from its      *)
(* text, independently of the parsing of ApplyMark.                        *)
(***************************************************************************)
\* positions <<i, j>> of the first ":" and of the first "=" after it
SeparatorsOf(m) ==
  {t \in {i \in 1..Len(m) : m[i] = ":"} \X {i \in 1..Len(m) : m[i] = "="} :
     /\ t[1] < t[2]
     /\ \A h \in 1..(t[1] - 1) : m[h] # ":"
     /\ \A h \in (t[1] + 1)..(t[2] - 1) : m[h] # "="}

\* the mark has the shape pattern ":" key "=" value
WellFormed(m) == SeparatorsOf(m) # {}
PatternOf(m) == LET t == CHOOSE t \in SeparatorsOf(m) : TRUE
                IN SubSeq(m, 1, t[1] - 1)
KeyOf(m) == LET t == CHOOSE t \in SeparatorsOf(m) : TRUE
            IN SubSeq(m, t[1] + 1, t[2] - 1)
ValueOf(m) == LET t == CHOOSE t \in SeparatorsOf(m) : TRUE
              IN SubSeq(m, t[2] + 1, Len(m))

RecognizedKeys ==
  {K_path, K_exclude, K_type, K_forOutput, K_exclusiveForOutput}

\* a mark has been taken and its pattern was evaluated against the files
Evaluated == k >= 1 /\ WellFormed(mark)

\* the slots whose file was in the collection when the last mark was
\* evaluated and whose original path its pattern matches
MatchedSlots ==
  {i \in 1..Len(slotsAtEval) :
     /\ slotsAtEval[i] # Nil
     /\ PathMatches(PatternOf(mark), files0[slotsAtEval[i]].orig)}
MatchedFiles == {slotsAtEval[i] : i \in MatchedSlots}

\* the (contentType, templateEnabled) pair of a file
PairOf(f) == <<f.type, f.template>>

\* C1: a mark whose pattern matches no file of the collection when it is
\* evaluated ends applyFileMarks without success, at any position: the
\* loop does not go on and no collection is returned.
C1_UnmatchedMarkFails ==
  (Evaluated /\ MatchedSlots = {}) => status \notin {"running", "ok"}

\* C1 witness: the second mark, after a first one that succeeded, matches
\* none of the files and the call returns UnmatchedMarkPattern.
C1_Witness ==
  /\ Evaluated /\ k = 2 /\ MatchedSlots = {}
  /\ PatternOf(mark) = P_c /\ KeyOf(mark) = K_path
  /\ Len(slotsAtEval) > 0
  /\ status = "UnmatchedMarkPattern"

\* C2: after a successful call with a non-empty accumulator, a surviving
\* file has forOutput = true iff it is in the accumulator.
C2_ExclusiveOverride ==
  (status = "ok" /\ Len(exclusiveForOutputFiles) > 0) =>
    \A id \in Range(result) :
      files[id].forOutput <=> id \in Range(exclusiveForOutputFiles)

\* C2 witness: a surviving file that was for output at ingestion and is
\* not in the non-empty accumulator ends with forOutput = false.
C2_Witness ==
  /\ status = "ok" /\ Len(exclusiveForOutputFiles) > 0
  /\ \E id \in Range(result) :
       /\ id \notin Range(exclusiveForOutputFiles)
       /\ files0[id].forOutput
       /\ ~files[id].forOutput

\* C3: no mark after an exclude=true that matched a file makes the scan
\* read through a cleared slot: applyFileMarks always ends with a
\* collection or one of the defined errors.
C3_NoNilDereference == status # "panic"

\* the table of the type values of C4
SixPairs ==
  {<<V_yamlTemplate, <<TypeYAML, TRUE>>>>, <<V_yamlPlain, <<TypeYAML, FALSE>>>>,
   <<V_textTemplate, <<TypeText, TRUE>>>>, <<V_textPlain, <<TypeText, FALSE>>>>,
   <<V_starlark, <<TypeStarlark, FALSE>>>>, <<V_data, <<TypeUnknown, FALSE>>>>}

\* C4: a successful type mark with value v leaves every file it matched
\* with the pair of v, and a file never holds a pair that is neither its
\* pair at ingestion nor one of the six.
C4_TypeSetsFixedPair ==
  /\ (Evaluated /\ KeyOf(mark) = K_type /\ status \in {"running", "ok"}) =>
       \A id \in MatchedFiles :
         <<ValueOf(mark), PairOf(files[id])>> \in SixPairs
  /\ \A id \in DOMAIN files :
       \/ PairOf(files[id]) = PairOf(files0[id])
       \/ \E t \in SixPairs : t[2] = PairOf(files[id])

\* C4 witness: a type=starlark mark has turned a file ingested as a YAML
\* template into (Starlark, false).
C4_Witness ==
  /\ Evaluated /\ KeyOf(mark) = K_type /\ ValueOf(mark) = V_starlark
  /\ status \in {"running", "ok"}
  /\ \E id \in MatchedFiles :
       /\ PairOf(files0[id]) = <<TypeYAML, TRUE>>
       /\ PairOf(files[id]) = <<TypeStarlark, FALSE>>

\* no "*" occurs in s
StarFree(s) == \A i \in 1..Len(s) : s[i] # "*"

\* C5: for a pattern without "*", fileMarkMatches is true iff the pattern
\* equals the original relative path character for character.
C5_LiteralPatternIsEquality ==
  (matches # "unknown" /\ StarFree(pattern)) =>
    (matches = "match" <=> pattern = origPath)

\* C5 witness: a pattern of several characters with the metacharacter "."
\* and no "*" has matched a path.
C5_Witness ==
  /\ matches = "match"
  /\ StarFree(pattern) /\ Len(pattern) >= 2
  /\ \E i \in 1..Len(pattern) : pattern[i] = "."

\* the wildcard tokens
SingleLevel == <<"*">>
MultiLevel == <<"*", "*", "/", "*">>

\* the positions at which token w is the only wildcard of pattern p
OnlyTokenAt(p, w) ==
  {i \in 1..Len(p) :
     /\ HasAt(p, w, i)
     /\ StarFree(SubSeq(p, 1, i - 1))
     /\ StarFree(SubSeq(p, i + Len(w), Len(p)))}

\* path is the text before position i of p, a run of one or more
\* characters (without "/" unless acrossDirs), and the text after the
\* token of length n at i
RunMatches(p, i, n, path, acrossDirs) ==
  \E from \in 1..Len(path), to \in 1..Len(path) :
    /\ from <= to
    /\ SubSeq(path, 1, from - 1) = SubSeq(p, 1, i - 1)
    /\ SubSeq(path, to + 1, Len(path)) = SubSeq(p, i + n, Len(p))
    /\ acrossDirs \/ \A h \in from..to : path[h] # "/"

\* C6: with a single wildcard token in the pattern, "*" stands for a run
\* of one or more characters other than "/", and "**/*" for a run of one
\* or more arbitrary characters.
C6_WildcardRuns ==
  matches # "unknown" =>
    /\ \A i \in OnlyTokenAt(pattern, SingleLevel) :
         matches = "match" <=> RunMatches(pattern, i, 1, origPath, FALSE)
    /\ \A i \in OnlyTokenAt(pattern, MultiLevel) :
         matches = "match" <=> RunMatches(pattern, i, 4, origPath, TRUE)

\* C6, the part about "*" alone
C6_SingleLevelRuns ==
  matches # "unknown" =>
    \A i \in OnlyTokenAt(pattern, SingleLevel) :
      matches = "match" <=> RunMatches(pattern, i, 1, origPath, FALSE)

\* C6, the part about "**/*" on paths without a line feed
C6_MultiLevelRunsNoLineFeed ==
  (matches # "unknown" /\ \A h \in 1..Len(origPath) : origPath[h] # NL) =>
    \A i \in OnlyTokenAt(pattern, MultiLevel) :
      matches = "match" <=> RunMatches(pattern, i, 4, origPath, TRUE)

\* the first slot the scan of the last mark cannot pass: a cleared slot or
\* a file its pattern matches (0 when there is none)
FirstDecisiveSlot ==
  LET D == {i \in 1..Len(slotsAtEval) :
              slotsAtEval[i] = Nil \/ i \in MatchedSlots}
  IN IF D = {} THEN 0 ELSE CHOOSE i \in D : \A j \in D : i <= j

\* C7 as stated (for a non-empty key): a mark with an unrecognized key
\* ends in UnknownMarkKey, whether or not its pattern matches a file.
C7_UnknownKeyAlwaysReported ==
  (Evaluated /\ KeyOf(mark) \notin RecognizedKeys /\ KeyOf(mark) # <<>>)
    => status = "UnknownMarkKey"

\* C7 amended: a mark with an unrecognized key never succeeds; it ends in
\* UnknownMarkKey when the scan reaches a file its pattern matches, in
\* UnmatchedMarkPattern when it reaches the end without a match, and in a
\* nil dereference when it reaches a cleared slot first.
C7_UnknownKeyOutcome ==
  (Evaluated /\ KeyOf(mark) \notin RecognizedKeys) =>
    status = (IF FirstDecisiveSlot = 0 THEN "UnmatchedMarkPattern"
              ELSE IF slotsAtEval[FirstDecisiveSlot] = Nil THEN "panic"
              ELSE "UnknownMarkKey")

\* C7 witness: a mark with an unrecognized, non-empty key whose pattern
\* matches a file has ended the call with UnknownMarkKey.
C7_Witness ==
  /\ Evaluated /\ KeyOf(mark) \notin RecognizedKeys /\ KeyOf(mark) # <<>>
  /\ MatchedSlots # {}
  /\ status = "UnknownMarkKey"

\* C8: when the render result carries an error, or when no output
\* directory is set and the output type is none of yaml, json, pos, Output
\* returns that error (UnknownOutputType in the second case) and has
\* neither written a directory, nor serialized, nor printed.
C8_NothingEmittedOnEarlyError ==
  outputResult # "pending" =>
    /\ outErr => (outputResult = "RenderError" /\ effects = <<>>)
    /\ (~outErr /\ outputDir = <<>> /\ outputType \notin {"yaml", "json", "pos"})
         => (outputResult = "UnknownOutputType" /\ effects = <<>>)

\* C8 witness: Output has returned UnknownOutputType for the type "xml"
\* without an output directory.
C8_Witness ==
  /\ outputResult = "UnknownOutputType"
  /\ outputType = "xml" /\ outputDir = <<>> /\ ~outErr

\* C9: with an output directory and no render error, Output does nothing
\* but hand the final collection to the directory writer, and its result
\* is the writer's: never UnknownOutputType, whatever the output type.
C9_DirectoryOutputIgnoresType ==
  (outputResult # "pending" /\ ~outErr /\ outputDir # <<>>) =>
    /\ effects = <<E_writeDirectory(outputDir, outFiles)>>
    /\ outputResult = (IF dirWriteFails THEN "OutputWriteError" ELSE "nil")

\* C9 witness: Output has succeeded with an output directory and the
\* output type "xml".
C9_Witness ==
  /\ outputResult = "nil" /\ ~outErr
  /\ outputDir # <<>> /\ outputType = "xml"

\* the mark has no ":" or no "=" after its first ":"
LacksSeparator(m) ==
  \/ \A i \in 1..Len(m) : m[i] # ":"
  \/ \E i \in 1..Len(m) :
       /\ m[i] = ":" /\ \A h \in 1..(i - 1) : m[h] # ":"
       /\ \A h \in (i + 1)..Len(m) : m[h] # "="

MarkErrors ==
  {"MalformedMarkSyntax", "UnmatchedMarkPattern", "UnknownMarkKey",
   "InvalidMarkValue"}

\* C11: the step in which a mark fails with an error leaves the File
\* objects, the slots and the accumulator as the marks before it left them
\* (no rollback) and returns no collection, and after it nothing changes
\* any more: no later mark is taken, no compaction and no override run.
C11_FailFastNoRollback ==
  [][/\ (status = "running" /\ status' \in MarkErrors) =>
          /\ files' = files
          /\ filesToProcess' = filesToProcess
          /\ exclusiveForOutputFiles' = exclusiveForOutputFiles
          /\ result' = <<>>
     /\ status \in MarkErrors => UNCHANGED applierVars]_vars

\* C11 witness: the second mark has failed with an error and the change
\* the first mark made to a file is in place, as is the slot it cleared
\* or the accumulator it extended.
C11_Witness ==
  /\ k = 2 /\ nMarks = 2 /\ status \in MarkErrors
  /\ files # files0
  /\ result = <<>>

RECURSIVE ReplaceEvery(_, _, _)
\* s with every occurrence of old replaced, left to right
ReplaceEvery(s, old, new) ==
  LET i == Index(s, old)
  IN IF i = 0 THEN s
     ELSE SubSeq(s, 1, i - 1) \o new
          \o ReplaceEvery(SubSeq(s, i + Len(old), Len(s)), old, new)

\* the expression in which every "**/*" and then every remaining "*" of
\* the pattern is rewritten
EveryWildcardRegexp(path) ==
  ReplaceEvery(ReplaceEvery(QuoteMeta(path), quotedMultiLevel, DotPlus),
               quotedSingleLevel, NotSlashPlus)

\* C12: fileMarkMatches decides as the expression in which every wildcard
\* token of the pattern is rewritten, not only the first of each kind, so
\* that no "*" of the pattern is matched as a literal asterisk.
C12_EveryWildcardRewritten ==
  matches # "unknown" =>
    (matches = "match"
       <=> Accepts(Compile(EveryWildcardRegexp(pattern)), origPath))

\* the values a type mark accepts
TypeValues == {t[1] : t \in SixPairs}

\* the last mark has a key that restricts its value and a value outside
\* the legal set of that key
InvalidValue ==
  \/ /\ KeyOf(mark) \in {K_exclude, K_forOutput, K_exclusiveForOutput}
     /\ ValueOf(mark) # V_true
  \/ /\ KeyOf(mark) = K_type
     /\ ValueOf(mark) \notin TypeValues

\* C13: a mark that matches at least one file and has an illegal value
\* for its key ends applyFileMarks with InvalidMarkValue, and a path mark
\* that matches at least one file is accepted with any value.
C13_InvalidValueReported ==
  (Evaluated /\ MatchedSlots # {}) =>
    /\ InvalidValue => status = "InvalidMarkValue"
    /\ KeyOf(mark) = K_path => status \in {"running", "ok"}

\* C13, where the scan of the mark meets no cleared slot before the first
\* file it matches: the value is checked at that file.
C13_InvalidValueAtFirstMatch ==
  (Evaluated /\ InvalidValue /\ FirstDecisiveSlot \in MatchedSlots) =>
    status = "InvalidMarkValue"

\* mark number j of the run is a well-formed mark with key key
IsMark(j, key) == WellFormed(marks[j]) /\ KeyOf(marks[j]) = key

\* mark number j of the run matches the original path of file id
MarkMatches(j, id) == PathMatches(PatternOf(marks[j]), files0[id].orig)

\* the files some exclude=true mark of the run matches
ExcludedFiles ==
  {id \in DOMAIN files0 :
     \E j \in 1..Len(marks) :
       /\ IsMark(j, K_exclude) /\ ValueOf(marks[j]) = V_true
       /\ MarkMatches(j, id)}

\* C14: on success the returned collection is the input collection, in
\* its order and each file once, without the files that an exclude=true
\* mark of the list matched.
C14_ResultIsInputMinusExcluded ==
  status = "ok" =>
    result = SelectSeq([i \in 1..Len(files0) |-> i],
                       LAMBDA id : id \notin ExcludedFiles)

\* C14 witness: a successful call with two marks, the second an exclusion,
\* that returns one of two input files.
C14_Witness ==
  /\ status = "ok" /\ Len(marks) = 2
  /\ Len(files0) = 2 /\ Len(result) = 1
  /\ ExcludedFiles # {}
  /\ ~IsMark(1, K_exclude)

\* the last mark comes after a successful path mark that gave a file the
\* marked path v, its pattern is v, and v matches no original path
PatternIsMarkedPathOnly ==
  /\ Evaluated
  /\ \E j \in 1..(Len(marks) - 1) :
       /\ IsMark(j, K_path)
       /\ PatternOf(mark) = ValueOf(marks[j])
       /\ \E id \in DOMAIN files0 : MarkMatches(j, id)
  /\ \A id \in DOMAIN files0 :
       ~PathMatches(PatternOf(mark), files0[id].orig)

\* C15: no mark changes the original path of a file, and a mark whose
\* pattern equals the marked path an earlier path mark gave a file, and
\* matches no original path, ends applyFileMarks with UnmatchedMarkPattern.
C15_MarkedPathNeverMatched ==
  /\ \A id \in DOMAIN files : files[id].orig = files0[id].orig
  /\ PatternIsMarkedPathOnly => status = "UnmatchedMarkPattern"

\* C15, first part: no mark changes the original path of a file.
C15_OriginalPathImmutable ==
  \A id \in DOMAIN files : files[id].orig = files0[id].orig

\* C15, second part where no slot is cleared when the mark is evaluated.
C15_MarkedPathUnmatchedNoClearedSlot ==
  (PatternIsMarkedPathOnly /\ Nil \notin Range(slotsAtEval)) =>
    status = "UnmatchedMarkPattern"

\* the file differs from its state before the step at most in the fields
\* named
OnlyMarkedChanged(f, g) == g = [f EXCEPT !.marked = g.marked]
OnlyPairChanged(f, g) ==
  g = [f EXCEPT !.type = g.type, !.template = g.template]
OnlyForOutputChanged(f, g) == g = [f EXCEPT !.forOutput = g.forOutput]

\* in a step that takes a mark: the slots that hold a file whose original
\* path the pattern of the mark matches, and those files
StepMatchedSlots ==
  {i \in 1..Len(filesToProcess) :
     /\ filesToProcess[i] # Nil
     /\ PathMatches(PatternOf(mark'), files0[filesToProcess[i]].orig)}
StepMatchedFiles == {filesToProcess[i] : i \in StepMatchedSlots}

\* C16: the step of one well-formed mark leaves the files it does not
\* match, and their slots, unchanged, and on the files it matches changes
\* only what belongs to its key: path the marked path; type the content
\* type and the template flag; for-output the forOutput flag; exclude the
\* slot; exclusive-for-output nothing of the file, only the accumulator,
\* which no other key changes.
C16_DirectiveFrame ==
  [][(k' = k + 1 /\ WellFormed(mark')) =>
       LET key == KeyOf(mark')
           matchedSlots == StepMatchedSlots
           matchedFiles == StepMatchedFiles
       IN /\ DOMAIN files' = DOMAIN files
          /\ Len(filesToProcess') = Len(filesToProcess)
          /\ \A id \in DOMAIN files :
               id \notin matchedFiles => files'[id] = files[id]
          /\ \A i \in 1..Len(filesToProcess) :
               i \notin matchedSlots => filesToProcess'[i] = filesToProcess[i]
          /\ key # K_exclude => filesToProcess' = filesToProcess
          /\ key # K_exclusiveForOutput =>
               exclusiveForOutputFiles' = exclusiveForOutputFiles
          /\ key \notin {K_path, K_type, K_forOutput} => files' = files
          /\ \A id \in DOMAIN files :
               /\ key = K_path => OnlyMarkedChanged(files[id], files'[id])
               /\ key = K_type => OnlyPairChanged(files[id], files'[id])
               /\ key = K_forOutput =>
                    OnlyForOutputChanged(files[id], files'[id])
          /\ key = K_exclusiveForOutput =>
               /\ Len(exclusiveForOutputFiles')
                    >= Len(exclusiveForOutputFiles)
               /\ \A j \in 1..Len(exclusiveForOutputFiles') :
                    IF j <= Len(exclusiveForOutputFiles)
                    THEN exclusiveForOutputFiles'[j]
                           = exclusiveForOutputFiles[j]
                    ELSE exclusiveForOutputFiles'[j] \in matchedFiles
     ]_vars

\* C16 witness: a first exclusive-for-output=true mark has put one of two
\* files, ingested not for output, in the accumulator and has left both
\* files as ingested.
C16_Witness ==
  /\ Evaluated /\ k = 1 /\ status = "running"
  /\ KeyOf(mark) = K_exclusiveForOutput
  /\ Len(files0) = 2 /\ Cardinality(MatchedFiles) = 1
  /\ Range(exclusiveForOutputFiles) = MatchedFiles
  /\ files = files0
  /\ \E id \in MatchedFiles : ~files[id].forOutput

\* the number of the last mark of the run with key key that matches the
\* original path of file id (0 when there is none)
LastMark(id, key) ==
  LET J == {j \in 1..Len(marks) : IsMark(j, key) /\ MarkMatches(j, id)}
  IN IF J = {} THEN 0 ELSE CHOOSE j \in J : \A h \in J : h <= j

\* C17: on success a surviving file has the marked path given by the last
\* path mark of the list that matches its original path (its original
\* path when there is none) and the (contentType, templateEnabled) pair
\* of the last type mark that matches it (its pair at ingestion when
\* there is none).
C17_LastWriterWins ==
  status = "ok" =>
    \A id \in Range(result) :
      LET p == LastMark(id, K_path)
          t == LastMark(id, K_type)
      IN /\ files[id].marked =
              (IF p = 0 THEN files0[id].orig ELSE ValueOf(marks[p]))
         /\ IF t = 0 THEN PairOf(files[id]) = PairOf(files0[id])
            ELSE <<ValueOf(marks[t]), PairOf(files[id])>> \in SixPairs

\* C17 witness: two path marks with different values matched the same
\* file and the call returned it with the value of the second.
C17_Witness ==
  /\ status = "ok" /\ Len(marks) = 2
  /\ IsMark(1, K_path) /\ IsMark(2, K_path)
  /\ ValueOf(marks[1]) # ValueOf(marks[2])
  /\ PatternOf(marks[1]) # PatternOf(marks[2])
  /\ \E id \in Range(result) :
       /\ MarkMatches(1, id) /\ MarkMatches(2, id)
       /\ files[id].marked = ValueOf(marks[2])
       /\ files[id].marked # files0[id].orig

\* in a step that takes a mark: the effect of the mark is on file id
EffectOn(id) ==
  LET key == KeyOf(mark')
      value == ValueOf(mark')
  IN /\ key = K_path => files'[id].marked = value
     /\ key = K_exclude => id \notin Range(filesToProcess')
     /\ key = K_type => <<value, PairOf(files'[id])>> \in SixPairs
     /\ key = K_forOutput => files'[id].forOutput
     /\ key = K_exclusiveForOutput =>
          id \in Range(exclusiveForOutputFiles')

\* C18: a mark that ends in a returned error has changed no file, no slot
\* and not the accumulator, and a mark that succeeds has applied its
\* effect to every file whose original path its pattern matches.
C18_AllOrNothing ==
  [][k' = k + 1 =>
       /\ status' \in MarkErrors =>
            /\ files' = files
            /\ filesToProcess' = filesToProcess
            /\ exclusiveForOutputFiles' = exclusiveForOutputFiles
       /\ status' = "running" =>
            \A id \in DOMAIN files0 :
              PathMatches(PatternOf(mark'), files0[id].orig) => EffectOn(id)
     ]_vars

\* C18 witness: a path mark has matched two files and both have its value
\* as marked path; before it, a mark had succeeded too.
C18_Witness ==
  /\ Evaluated /\ k = 2 /\ status = "running"
  /\ KeyOf(mark) = K_path /\ ValueOf(mark) = P_c
  /\ Cardinality(MatchedFiles) = 2
  /\ \A id \in MatchedFiles : files[id].marked = P_c

\* some for-output=true mark of the run matches the original path of the
\* file
ForOutputMarked(id) ==
  \E j \in 1..Len(marks) :
    /\ IsMark(j, K_forOutput) /\ ValueOf(marks[j]) = V_true
    /\ MarkMatches(j, id)

\* C19: while the accumulator is empty no step turns forOutput of a file
\* from true to false, and the step that returns the collection with an
\* empty accumulator leaves a surviving file for output iff it was so at
\* ingestion or a for-output=true mark of the list matched it.
C19_ForOutputMonotone ==
  [][Len(exclusiveForOutputFiles') = 0 =>
       /\ \A id \in DOMAIN files :
            files[id].forOutput => files'[id].forOutput
       /\ (status = "running" /\ status' = "ok") =>
            \A id \in Range(result') :
              files'[id].forOutput
                <=> (files0[id].forOutput \/ ForOutputMarked(id))
     ]_vars

\* C19 witness: a call with an empty accumulator returned two files
\* ingested not for output, one that a for-output=true mark matched and is
\* for output, and one that no such mark matched and is not.
C19_Witness ==
  /\ status = "ok" /\ Len(exclusiveForOutputFiles) = 0
  /\ Len(result) = 2
  /\ \A id \in Range(result) : ~files0[id].forOutput
  /\ \E id \in Range(result) : ForOutputMarked(id) /\ files[id].forOutput
  /\ \E id \in Range(result) : ~ForOutputMarked(id) /\ ~files[id].forOutput

\* the list ms with a copy of its mark number j right after it
Duplicated(ms, j) ==
  SubSeq(ms, 1, j) \o <<ms[j]>> \o SubSeq(ms, j + 1, Len(ms))

\* the run has no mark with key exclude
NoExcludeMark == \A j \in 1..Len(marks) : ~IsMark(j, K_exclude)

\* C20: when a list without exclude marks has run successfully, the list
\* with a copy of any of its marks inserted right after that mark runs
\* successfully on the same ingested files and ends with the same files,
\* in the same order and with the same attributes.
C20_DuplicateMarkIdempotent ==
  (status = "ok" /\ NoExcludeMark) =>
    \A j \in 1..Len(marks) :
      LET r == applyFileMarks(files0, Duplicated(marks, j))
      IN /\ r.outcome = "ok"
         /\ r.result = result
         /\ r.files = files

\* C20 witness: a successful list of a path mark, an
\* exclusive-for-output=true mark and a type mark on two files, whose copy
\* with the second mark doubled holds every accumulated file twice.
C20_Witness ==
  /\ status = "ok" /\ NoExcludeMark /\ Len(marks) = 3
  /\ IsMark(1, K_path) /\ IsMark(2, K_exclusiveForOutput)
  /\ IsMark(3, K_type)
  /\ Len(result) = 2
  /\ Len(applyFileMarks(files0, Duplicated(marks, 2)).excl)
       = 2 * Len(exclusiveForOutputFiles)

====
